---- MODULE Spec2Model ----
(***************************************************************************)
(* A model of the workflow orchestration core of AI-Drug-Peptide:          *)
(* versions/1.0.0/src/core/workflow/orchestrator.py.                       *)
(*                                                                         *)
(* One WorkflowOrchestrator process is followed, with the one workflow it  *)
(* creates: the WorkflowState object held by StateManager._states, the     *)
(* JSON file StateManager writes for it, the execute_workflow coroutines   *)
(* running on the event loop, and the executor threads running             *)
(* _execute_single_task.  The event-loop thread runs one coroutine segment *)
(* or one synchronous call (pause, resume, cancel, create) at a time; the  *)
(* executor threads run concurrently with it and with each other.  The     *)
(* synchronous calls are plain methods, which a caller may also issue from *)
(* a thread of its own, so they may fall between any two coroutine steps.  *)
(***************************************************************************)
EXTENDS Integers, Sequences, FiniteSets, TLC

\* ------------------------------------------------------------------ bounds

\* Largest max_retries a created task carries.
MaxRetries == 1

\* Largest k of a task function that raises on its first k invocations.
MaxFail == 1

\* Number of execute_workflow invocations that are followed.
MaxRuns == 2

\* Number of pause_workflow and cancel_workflow calls that are followed.
MaxControlCalls == 1

\* ------------------------------------------------------------- vocabulary

TaskIds == {"t1", "t2"}

\* An id that is the task_id of no task.
MissingId == "tx"

DepIds == TaskIds \cup {MissingId}

\* The order of the task list handed to create_workflow, which is the order
\* of the tasks dict and so of ready_tasks and task_futures.
TaskOrder == <<"t1", "t2">>

RunIds == 1..MaxRuns

\* class TaskStatus(Enum): the values.
TaskStatus ==
    {"pending", "running", "completed", "failed", "cancelled", "retrying"}

\* class WorkflowStatus(Enum): the values.
WorkflowStatus ==
    {"created", "running", "paused", "completed", "failed", "cancelled"}

\* The member name of an enum value (its upper-case spelling).
EnumName(v) ==
    CASE v = "pending"   -> "PENDING"
      [] v = "running"   -> "RUNNING"
      [] v = "completed" -> "COMPLETED"
      [] v = "failed"    -> "FAILED"
      [] v = "cancelled" -> "CANCELLED"
      [] v = "retrying"  -> "RETRYING"
      [] v = "created"   -> "CREATED"
      [] v = "paused"    -> "PAUSED"

\* Task functions: "returns" always returns, "raises" always raises, and
\* FlakyName[k] raises on its first k invocations and returns afterwards.
FlakyName == <<"raises_first_1", "raises_first_2", "raises_first_3">>

FlakyFns == {FlakyName[k] : k \in 1..MaxFail}

TaskFunctions == {"returns", "raises"} \cup FlakyFns

FailsFirst(f) == CHOOSE k \in 1..MaxFail : FlakyName[k] = f

\* The class of the exception a task function raises: "raises" rejects its
\* input with ValueError, a flaky function loses its connection, and the
\* string a file gave in place of a function is not callable.
Raised(f) ==
    IF f = "raises" THEN "ValueError"
    ELSE IF f \in FlakyFns THEN "ConnectionError"
    ELSE "TypeError"

\* Task.timeout: the dataclass default, in seconds.
DefaultTimeout == 3600

\* The timeouts a caller may give a task.
Timeouts == {0, DefaultTimeout}

\* What json.dump(default=str) writes for a function object: its repr, a
\* string.  A Task rebuilt from the file carries that string as its function.
FunctionRepr == "<function>"

\* The absent WorkflowState (load_state's None) and the absent file.
NoState == [exists |-> FALSE]

NoFile == [exists |-> FALSE]

\* The file as open(state_file, 'w') leaves it until json.dump has written
\* the whole document: empty, or the beginning of a document.
TruncatedFile == [exists |-> TRUE, truncated |-> TRUE]

VARIABLES
    states,      \* StateManager._states[workflow_id]: the WorkflowState object
    file,        \* state_dir/<workflow_id>.json
    runs,        \* the execute_workflow coroutines
    workers,     \* the executor threads in _execute_single_task, per run and task
    calls,       \* the invocations a flaky task function has counted
    cancelSeen,  \* cancel_workflow in progress: the task it has read as RUNNING
    lastCreate,  \* how the latest create_workflow call ended
    taskList,    \* the caller's task list of the create_workflow that succeeded
    crashed,     \* the process was killed and started again
    controlCalls, \* pause_workflow and cancel_workflow calls so far
    returned,    \* what a caller of get_workflow_status holds
    old,         \* the workflow's created_at lies before cleanup's cutoff
    manifest,    \* DataCache: cache_info.json of the data source
    disk,        \* DataCache: the files of the cache directory, by path
    clock,       \* the wall clock: time.time(), datetime.now()
    fetched,     \* DataFetcher: the FetchResult of the latest fetch
    schedulerTasks, \* TaskScheduler: the Task objects handed to submit_task
    _running_tasks, \* TaskScheduler._running_tasks: task_id -> future
    _lock,       \* TaskScheduler._lock: "free", or held by a submit_task call
    executor,    \* TaskScheduler.executor: shut down or not, and its futures
    submitCall,  \* the submit_task call in progress, or how the latest ended
    wfState,     \* bin/workflow.py: WorkflowManager.state, as saved
    flowRun,     \* bin/workflow.py: the run of the flow started by main
    memory_cache, \* CacheManager.memory_cache, in insertion order
    cache_files, \* CacheManager: cache_dir/<key>.json
    lastOp       \* CacheManager: the latest set or get call

\* TaskScheduler.
schedulerVars == <<schedulerTasks, _running_tasks, _lock, executor, submitCall>>

\* The step workflow of bin/workflow.py.
flowVars == <<wfState, flowRun>>

\* CacheManager.
cacheManagerVars == <<memory_cache, cache_files, lastOp>>

componentVars == <<schedulerVars, flowVars, cacheManagerVars>>

\* What the steps of the orchestrator leave alone.
auxVars ==
    <<returned, old, manifest, disk, clock, fetched, componentVars>>

vars ==
    <<states, file, runs, workers, calls, cancelSeen, lastCreate, taskList,
      crashed, controlCalls, returned, old, manifest, disk, clock, fetched,
      schedulerTasks, _running_tasks, _lock, executor, submitCall,
      wfState, flowRun, memory_cache, cache_files, lastOp>>

\* ----------------------------------------------------------- StateManager

\* str(member) of a plain Enum, which is what default=str makes of it.
EnumStr(cls, v) == cls \o "." \o EnumName(v)

\* save_state: asdict(state) dumped with default=str.
save_state(st) ==
    [exists   |-> TRUE,
     truncated |-> FALSE,
     status   |-> EnumStr("WorkflowStatus", st.status),
     progress |-> st.progress,
     tasks    |-> [t \in DOMAIN st.tasks |->
                     [st.tasks[t] EXCEPT
                        !.status   = EnumStr("TaskStatus", st.tasks[t].status),
                        !.function = FunctionRepr]]]

\* load_state from the file: json.load raises on a truncated document, and
\* TaskStatus(value) and WorkflowStatus(value) raise ValueError for a string
\* that is no value of the enum; the except clause turns both into None.
ParseState(doc) ==
    IF ~doc.exists THEN NoState
    ELSE IF doc.truncated THEN NoState
    ELSE IF \/ \E t \in DOMAIN doc.tasks : doc.tasks[t].status \notin TaskStatus
            \/ doc.status \notin WorkflowStatus
         THEN NoState
         ELSE [exists   |-> TRUE,
               status   |-> doc.status,
               progress |-> doc.progress,
               tasks    |-> doc.tasks]

\* load_state: the in-memory object when there is one, else the file.
load_state == IF states.exists THEN states ELSE ParseState(file)

\* list_workflows: the stems of the files in the state directory.
list_workflows == IF file.exists THEN {"w"} ELSE {}

\* ---------------------------------------------------------------- Task

\* The dependency lists a caller may declare: no dependency, or one (another
\* task, the task itself, or an id that is no task's).
DepSets == {{}} \cup {{d} : d \in DepIds}

\* What a caller chooses per task; the other fields keep the dataclass defaults.
TaskDefs(max_retries) ==
    [dependencies : DepSets, max_retries : {max_retries},
     timeout : {DefaultTimeout}, function : TaskFunctions]

\* The same with a timeout chosen by the caller.
TimedTaskDefs(max_retries) ==
    [dependencies : DepSets, max_retries : {max_retries},
     timeout : Timeouts, function : TaskFunctions]

\* The task lists handed to create_workflow: none, t1, or t1 and t2, the
\* tasks of one list sharing their max_retries (as with the default).
TaskLists ==
    UNION {[dom -> TaskDefs(m)] :
              dom \in {{}, {"t1"}, {"t1", "t2"}}, m \in 0..MaxRetries}

\* The task lists whose tasks carry a timeout of the caller's choice.
TimedTaskLists ==
    UNION {[dom -> TimedTaskDefs(m)] :
              dom \in {{}, {"t1"}, {"t1", "t2"}}, m \in 0..MaxRetries}

\* Task(...): retry_count 0, status PENDING, result and error None.
NewTask(def) ==
    [dependencies |-> def.dependencies,
     retry_count  |-> 0,
     max_retries  |-> def.max_retries,
     timeout      |-> def.timeout,
     status       |-> "pending",
     result       |-> "None",
     error        |-> "None",
     completed_at |-> "None",
     function     |-> def.function]

\* The ids of a set in task-list order.
RECURSIVE InOrder(_, _)
InOrder(S, order) ==
    IF order = <<>> THEN <<>>
    ELSE IF Head(order) \in S
         THEN <<Head(order)>> \o InOrder(S, Tail(order))
         ELSE InOrder(S, Tail(order))

\* x in list.
InList(list, x) == \E i \in DOMAIN list : list[i] = x

\* ------------------------------------------------------------ DataCache

\* Largest size of a cache file, in bytes.
MaxFileSize == 1

\* Number of clock steps that are followed.
MaxTicks == 2

\* is_cache_valid: the age in seconds past which an entry is expired.
CacheTtl == 86400

\* The files of one data source's cache directory; OutputFile is the one the
\* fetch task writes (sequence_cache.csv).
Paths == {"f1", "f2"}

PathOrder == <<"f1", "f2">>

OutputFile == "f1"

\* The protein ids a DataFetcher is built with; they double as the bytes of
\* file contents.
ProteinIds == {"P", "Q"}

Contents == UNION {[1..n -> ProteinIds] : n \in 0..MaxFileSize}

\* What the producer (the remote request and to_csv) writes for a protein id.
Produce(protein_id) == <<protein_id>>

NoManifest == [exists |-> FALSE]

\* _calculate_hash: the sha256 of the file's bytes; "" when it cannot be read.
_calculate_hash(path) ==
    IF disk[path].exists THEN <<"sha256">> \o disk[path].content ELSE <<>>

\* The body of is_cache_valid's loop for one manifest entry: the file exists,
\* has the size recorded (0 when none is), and, when a hash is recorded, has
\* that hash.
FileChecksPass(file_info) ==
    /\ disk[file_info.path].exists
    /\ Len(disk[file_info.path].content) =
          (IF "size" \in DOMAIN file_info THEN file_info.size ELSE 0)
    /\ "hash" \in DOMAIN file_info =>
          _calculate_hash(file_info.path) = file_info.hash

\* is_cache_valid(data_source)[0].
is_cache_valid ==
    /\ manifest.exists
    /\ ~(clock - manifest.timestamp > CacheTtl)
    /\ \A i \in DOMAIN manifest.files : FileChecksPass(manifest.files[i])

\* The paths of the entries of `files` whose file exists, in manifest order.
RECURSIVE ExistingPaths(_)
ExistingPaths(files) ==
    IF files = <<>> THEN <<>>
    ELSE IF disk[Head(files).path].exists
         THEN <<Head(files).path>> \o ExistingPaths(Tail(files))
         ELSE ExistingPaths(Tail(files))

\* get_valid_cache_files(data_source).
get_valid_cache_files ==
    IF ~manifest.exists THEN <<>> ELSE ExistingPaths(manifest.files)

\* save_cache_info(data_source, files): the manifest it writes.
save_cache_info(files) ==
    [exists |-> TRUE, timestamp |-> clock, files |-> files]

\* The manifest entry a fetch task builds for a file it wrote.
FileInfo(path, content) ==
    [path |-> path, size |-> Len(content), hash |-> <<"sha256">> \o content]

\* ------------------------------------------------ the other components

\* Number of futures TaskScheduler.executor is given.
MaxSubmits == 2

\* Number of runs of the step workflow that are followed.
MaxFlowRuns == 2

\* CacheManager.max_memory_entries, as configured.
MaxMemoryEntries == 2

\* The keys handed to CacheManager.set and get.
CacheKeys == {"k1", "k2", "k3"}

\* ----------------------------------------------------------------- Init

\* An execute_workflow coroutine that has not been called: where it stands,
\* the completed_tasks and failed_tasks of _execute_tasks, the futures it has
\* still to await, how it ended, and the handle_workflow_error calls it made.
IdleRun ==
    [pc |-> "idle", completed |-> {}, failed |-> {}, futures |-> <<>>,
     result |-> "none", notified |-> 0]

\* ErrorHandler.handle_workflow_error, called by the execution `run`: one more
\* notification.
handle_workflow_error(run) == [run EXCEPT !.notified = @ + 1]

Init ==
    /\ states = NoState
    /\ file = NoFile
    /\ runs = [r \in RunIds |-> IdleRun]
    /\ workers = [r \in RunIds |-> [t \in TaskIds |-> "none"]]
    /\ calls = [t \in TaskIds |-> 0]
    /\ cancelSeen = {}
    /\ lastCreate = "none"
    /\ taskList = <<>>
    /\ crashed = FALSE
    /\ controlCalls = 0
    /\ returned = [exists |-> FALSE]
    /\ old = FALSE
    /\ manifest = NoManifest
    /\ disk = [p \in Paths |-> NoFile]
    /\ clock = 0
    /\ fetched = [exists |-> FALSE]
    /\ schedulerTasks =
          [t \in TaskIds |-> [status |-> "pending", started_at |-> "None"]]
    /\ _running_tasks = [t \in TaskIds |-> 0]
    /\ _lock = "free"
    /\ executor = [shutdown |-> FALSE, futures |-> <<>>]
    /\ submitCall = [pc |-> "idle", task |-> "None", result |-> "None"]
    /\ wfState = [completed_steps |-> <<>>, failed_steps |-> <<>>,
                  task_results |-> <<>>]
    /\ flowRun = [pc |-> "idle", n |-> 0, resume_from_step |-> 1,
                  next |-> 1, ran |-> <<>>, result |-> "None"]
    /\ memory_cache = <<>>
    /\ cache_files = [k \in CacheKeys |-> NoFile]
    /\ lastOp = [op |-> "None"]

\* ------------------------------------------------------- create_workflow

\* _validate_dependencies leaving its loop after the first task of the list.
_validate_dependencies_first_task_only(tasks) ==
    \A t \in DOMAIN tasks :
        t = Head(TaskOrder) =>
            \A dep_id \in tasks[t].dependencies : dep_id \in DOMAIN tasks

\* _validate_dependencies: TRUE when it returns, FALSE when it raises
\* WorkflowError.
_validate_dependencies(tasks) ==
    \A t \in DOMAIN tasks :
        \A dep_id \in tasks[t].dependencies : dep_id \in DOMAIN tasks

\* The event-loop thread is free: no cancel_workflow is between its read of a
\* task's status and its write.
LoopThreadFree == cancelSeen = {}

\* Some task list a caller may hand to create_workflow fails validation.
SomeTaskListRejected == \E tasks \in TaskLists : ~_validate_dependencies(tasks)

\* The first idle coroutine slot.
IsNextRun(r) ==
    /\ runs[r].pc = "idle"
    /\ \A q \in RunIds : q < r => runs[q].pc # "idle"

NoRunActive == \A r \in RunIds : runs[r].pc \in {"idle", "done"}

\* create_workflow(name, tasks).  The one workflow that is followed is created
\* once.  A call that fails validation ends in WorkflowError before anything is
\* built or saved; it reads nothing but its argument, and is followed while no
\* execution is in flight.  `lists` is what the caller takes its task list from.
create_workflow(lists) ==
    /\ LoopThreadFree
    /\ \/ /\ ~file.exists
          /\ \E tasks \in lists :
               /\ _validate_dependencies(tasks)
               /\ states' = [exists   |-> TRUE,
                             status   |-> "created",
                             progress |-> 0,
                             tasks    |-> [t \in DOMAIN tasks |-> NewTask(tasks[t])]]
               /\ taskList' = tasks
          /\ file' = save_state(states')
          /\ lastCreate' = "created"
       \/ /\ NoRunActive
          /\ SomeTaskListRejected
          /\ lastCreate' = "WorkflowError"
          /\ UNCHANGED <<states, file, taskList>>
    /\ UNCHANGED <<runs, workers, calls, cancelSeen, crashed, controlCalls>>
    /\ UNCHANGED auxVars

\* ------------------------------------------------------ execute_workflow

\* _get_ready_tasks.
_get_ready_tasks(tasks, completed, failed) ==
    {t \in DOMAIN tasks :
        /\ t \notin completed
        /\ t \notin failed
        /\ \A dep_id \in tasks[t].dependencies : dep_id \in completed}

\* execute_workflow up to its call of _execute_tasks: load_state, and when the
\* state is found, status RUNNING and save_state.
BeginExecute(r) ==
    LET st == load_state IN
    IF ~st.exists
    THEN /\ runs' = [runs EXCEPT ![r] = [IdleRun EXCEPT !.pc = "done",
                                                        !.result = "notfound"]]
         /\ UNCHANGED <<states, file>>
    ELSE /\ states' = [st EXCEPT !.status = "running"]
         /\ file' = save_state(states')
         /\ runs' = [runs EXCEPT ![r] = [IdleRun EXCEPT !.pc = "loop"]]

\* A caller awaits execute_workflow(workflow_id) while no other execution of
\* the workflow is in flight.
execute_workflow(r) ==
    /\ LoopThreadFree
    /\ IsNextRun(r)
    /\ NoRunActive
    /\ file.exists
    /\ BeginExecute(r)
    /\ UNCHANGED <<workers, calls, cancelSeen, lastCreate, taskList, crashed, controlCalls>>
    /\ UNCHANGED auxVars

\* The coroutine resume_workflow created gets its first turn on the loop.
ResumedExecuteStarts(r) ==
    /\ LoopThreadFree
    /\ runs[r].pc = "scheduled"
    /\ BeginExecute(r)
    /\ UNCHANGED <<workers, calls, cancelSeen, lastCreate, taskList, crashed, controlCalls>>
    /\ UNCHANGED auxVars

\* One turn of the while loop of _execute_tasks up to its first await, and
\* what execute_workflow does when the loop ends or raises.
_execute_tasks(r) ==
    /\ LoopThreadFree
    /\ runs[r].pc = "loop"
    /\ LET run   == runs[r]
           ready == _get_ready_tasks(states.tasks, run.completed, run.failed)
           more  == Cardinality(run.completed) + Cardinality(run.failed)
                        < Cardinality(DOMAIN states.tasks)
       IN
       IF more /\ ready # {}
       THEN \* run_in_executor for each ready task, then await the first.
            /\ runs' = [runs EXCEPT ![r].pc = "await",
                                    ![r].futures = InOrder(ready, TaskOrder)]
            /\ workers' = [workers EXCEPT ![r] =
                              [t \in TaskIds |->
                                  IF t \in ready THEN "start" ELSE workers[r][t]]]
            /\ UNCHANGED <<states, file>>
       ELSE IF more /\ run.failed # {}
       THEN \* raise WorkflowError("Workflow blocked by failed tasks"); the
            \* except clause of execute_workflow marks the workflow FAILED.
            /\ states' = [states EXCEPT !.status = "failed"]
            /\ file' = save_state(states')
            /\ runs' = [runs EXCEPT ![r] = handle_workflow_error(
                                    [IdleRun EXCEPT !.pc = "done",
                                                    !.result = "failed"])]
            /\ UNCHANGED workers
       ELSE \* the loop ended (its condition is false, or break).
            /\ states' = [states EXCEPT !.status = "completed", !.progress = 100]
            /\ file' = save_state(states')
            /\ runs' = [runs EXCEPT ![r] = [IdleRun EXCEPT !.pc = "done",
                                                           !.result = "completed"]]
            /\ UNCHANGED workers
    /\ UNCHANGED <<calls, cancelSeen, lastCreate, taskList, crashed, controlCalls>>
    /\ UNCHANGED auxVars

\* "await future" returns or raises for the first future of the batch; after
\* the last one the progress is updated and the state saved.
AwaitFuture(r) ==
    /\ LoopThreadFree
    /\ runs[r].pc = "await"
    /\ LET run  == runs[r]
           t    == Head(run.futures)
           rest == Tail(run.futures)
           completed == IF workers[r][t] = "returned"
                        THEN run.completed \cup {t} ELSE run.completed
           failed    == IF workers[r][t] = "raised"
                        THEN run.failed \cup {t} ELSE run.failed
       IN
       /\ workers[r][t] \in {"returned", "raised"}
       /\ workers' = [workers EXCEPT ![r][t] = "none"]
       /\ runs' = [runs EXCEPT ![r].completed = completed,
                               ![r].failed = failed,
                               ![r].futures = rest,
                               ![r].pc = IF rest = <<>> THEN "loop" ELSE "await"]
       /\ IF rest = <<>>
          THEN /\ states' = [states EXCEPT !.progress =
                               (Cardinality(completed) * 100)
                                   \div Cardinality(DOMAIN states.tasks)]
               /\ file' = save_state(states')
          ELSE UNCHANGED <<states, file>>
    /\ UNCHANGED <<calls, cancelSeen, lastCreate, taskList, crashed, controlCalls>>
    /\ UNCHANGED auxVars

\* -------------------------------------------------- _execute_single_task

\* task.function(*task.args, **task.kwargs) raises: the function's own
\* behaviour, or TypeError when the function is the string a file gave.
FunctionRaises(t) ==
    LET f == states.tasks[t].function IN
    \/ f = "raises"
    \/ f = FunctionRepr
    \/ f \in FlakyFns /\ calls[t] < FailsFirst(f)

\* A flaky function counts its invocations, up to one past the last that can
\* raise.
Invoked(t) ==
    IF states.tasks[t].function \in FlakyFns /\ calls[t] <= MaxFail
    THEN [calls EXCEPT ![t] = @ + 1]
    ELSE calls

\* The executor thread enters _execute_single_task (first call, or the
\* recursive call after the back-off): status RUNNING.
TaskStarts(r, t) ==
    /\ workers[r][t] = "start"
    /\ states' = [states EXCEPT !.tasks[t].status = "running"]
    /\ workers' = [workers EXCEPT ![r][t] = "running"]
    /\ UNCHANGED <<file, runs, calls, cancelSeen, lastCreate, taskList, crashed, controlCalls>>
    /\ UNCHANGED auxVars

\* The function returns and the thread writes status COMPLETED.
TaskReturns(r, t) ==
    /\ workers[r][t] = "running"
    /\ ~FunctionRaises(t)
    /\ states' = [states EXCEPT !.tasks[t].status = "completed"]
    /\ calls' = Invoked(t)
    /\ workers' = [workers EXCEPT ![r][t] = "finishing"]
    /\ UNCHANGED <<file, runs, cancelSeen, lastCreate, taskList, crashed, controlCalls>>
    /\ UNCHANGED auxVars

\* The thread goes on to write result and completed_at and returns.  Nothing
\* keeps a reader or a save_state from running between the two writes.
TaskRecordsResult(r, t) ==
    /\ workers[r][t] = "finishing"
    /\ states' = [states EXCEPT !.tasks[t].result = "ok",
                                !.tasks[t].completed_at = "set"]
    /\ workers' = [workers EXCEPT ![r][t] = "returned"]
    /\ UNCHANGED <<file, runs, calls, cancelSeen, lastCreate, taskList, crashed, controlCalls>>
    /\ UNCHANGED auxVars

\* handle_task_error's test written with <= for <.
RetryAllowedOffByOne(task) == task.retry_count <= task.max_retries

\* handle_task_error's test.
RetryAllowed(task) == task.retry_count < task.max_retries

\* The function raises: the except clause and handle_task_error record the
\* error and status FAILED, then handle_task_error tests the retry budget.
TaskRaises(r, t) ==
    /\ workers[r][t] = "running"
    /\ FunctionRaises(t)
    /\ states' = [states EXCEPT !.tasks[t].status = "failed",
                                !.tasks[t].error = "err",
                                !.tasks[t].completed_at = "set"]
    /\ calls' = Invoked(t)
    /\ workers' = [workers EXCEPT ![r][t] =
                      IF RetryAllowed(states.tasks[t]) THEN "retry" ELSE "raised"]
    /\ UNCHANGED <<file, runs, cancelSeen, lastCreate, taskList, crashed, controlCalls>>
    /\ UNCHANGED auxVars

\* _schedule_retry without its "task.retry_count += 1".
RetryCountKept(task) == task.retry_count

\* _schedule_retry: the retry_count it writes.
RetryCountAfter(task) == task.retry_count + 1

\* _schedule_retry: retry_count + 1, status RETRYING, error None, the sleep,
\* and back into _execute_single_task.
_schedule_retry(r, t) ==
    /\ workers[r][t] = "retry"
    /\ states' = [states EXCEPT !.tasks[t].retry_count =
                                    RetryCountAfter(states.tasks[t]),
                                !.tasks[t].status = "retrying",
                                !.tasks[t].error = "None"]
    /\ workers' = [workers EXCEPT ![r][t] = "start"]
    /\ UNCHANGED <<file, runs, calls, cancelSeen, lastCreate, taskList, crashed, controlCalls>>
    /\ UNCHANGED auxVars

\* ------------------------------------------------- pause, resume, cancel

\* pause_workflow: status PAUSED, save_state.
pause_workflow ==
    /\ LoopThreadFree
    /\ controlCalls < MaxControlCalls
    /\ load_state.exists
    /\ states' = [load_state EXCEPT !.status = "paused"]
    /\ file' = save_state(states')
    /\ controlCalls' = controlCalls + 1
    /\ UNCHANGED <<runs, workers, calls, cancelSeen, lastCreate, taskList, crashed>>
    /\ UNCHANGED auxVars

\* resume_workflow on a PAUSED workflow: asyncio.create_task(execute_workflow).
resume_workflow(r) ==
    /\ LoopThreadFree
    /\ load_state.exists
    /\ load_state.status = "paused"
    /\ IsNextRun(r)
    /\ states' = load_state
    /\ runs' = [runs EXCEPT ![r].pc = "scheduled"]
    /\ UNCHANGED <<file, workers, calls, cancelSeen, lastCreate, taskList, crashed, controlCalls>>
    /\ UNCHANGED auxVars

\* The first task of `order` that cancel_workflow's loop reads as RUNNING (as
\* a set: empty when it reads none).
RECURSIVE FirstRunning(_, _)
FirstRunning(st, order) ==
    IF order = <<>> THEN {}
    ELSE IF Head(order) \in DOMAIN st.tasks
               /\ st.tasks[Head(order)].status = "running"
         THEN {Head(order)}
         ELSE FirstRunning(st, Tail(order))

\* The tasks the loop of cancel_workflow has still to visit after task t.
RECURSIVE After(_, _)
After(order, t) ==
    IF order = <<>> THEN <<>>
    ELSE IF Head(order) = t THEN Tail(order) ELSE After(Tail(order), t)

\* cancel_workflow.  Its loop goes through the tasks in dict order; for a task
\* it reads as RUNNING it calls cancel_task and then writes CANCELLED, and the
\* executor threads may write between that read and that write.  cancel_task
\* finds nothing in TaskScheduler._running_tasks, which the orchestrator never
\* fills, so the executor threads go on.  With no task read as RUNNING the
\* call runs through: workflow CANCELLED, save_state.
cancel_workflow ==
    /\ LoopThreadFree
    /\ controlCalls < MaxControlCalls
    /\ load_state.exists
    /\ LET st   == load_state
           seen == FirstRunning(st, TaskOrder)
       IN
       IF seen = {}
       THEN /\ states' = [st EXCEPT !.status = "cancelled"]
            /\ file' = save_state(states')
            /\ UNCHANGED cancelSeen
       ELSE /\ cancelSeen' = seen
            /\ states' = st
            /\ UNCHANGED file
    /\ controlCalls' = controlCalls + 1
    /\ UNCHANGED <<runs, workers, calls, lastCreate, taskList, crashed>>
    /\ UNCHANGED auxVars

\* cancel_workflow goes on after its read of a RUNNING task: it writes
\* CANCELLED for that task and visits the tasks after it, up to the next one
\* it reads as RUNNING or to the end of the loop.
CancelWrites ==
    /\ cancelSeen # {}
    /\ LET t    == CHOOSE x \in cancelSeen : TRUE
           st   == [states EXCEPT !.tasks[t].status = "cancelled"]
           seen == FirstRunning(st, After(TaskOrder, t))
       IN
       IF seen = {}
       THEN /\ states' = [st EXCEPT !.status = "cancelled"]
            /\ file' = save_state(states')
            /\ cancelSeen' = {}
       ELSE /\ states' = st
            /\ cancelSeen' = seen
            /\ UNCHANGED file
    /\ UNCHANGED <<runs, workers, calls, lastCreate, taskList, crashed, controlCalls>>
    /\ UNCHANGED auxVars

\* ------------------------------------------------------------ the process

\* The process is killed and a fresh one started over the same state
\* directory: the files stay, everything in memory is gone.
Crash ==
    /\ ~crashed
    /\ file.exists
    /\ crashed' = TRUE
    /\ states' = NoState
    /\ runs' = [r \in RunIds |->
                  IF runs[r].pc \in {"idle", "done"} THEN runs[r]
                  ELSE [IdleRun EXCEPT !.pc = "done", !.result = "killed"]]
    /\ workers' = [r \in RunIds |-> [t \in TaskIds |-> "none"]]
    /\ calls' = [t \in TaskIds |-> 0]
    /\ cancelSeen' = {}
    /\ UNCHANGED <<file, lastCreate, taskList, controlCalls>>
    /\ UNCHANGED auxVars

\* The process is killed inside a save_state call, between open(..., 'w')
\* and the end of json.dump, and a fresh one is started: the file is left
\* truncated.
CrashInSave ==
    /\ ~crashed
    /\ states.exists
    /\ crashed' = TRUE
    /\ file' = TruncatedFile
    /\ states' = NoState
    /\ runs' = [r \in RunIds |->
                  IF runs[r].pc \in {"idle", "done"} THEN runs[r]
                  ELSE [IdleRun EXCEPT !.pc = "done", !.result = "killed"]]
    /\ workers' = [r \in RunIds |-> [t \in TaskIds |-> "none"]]
    /\ calls' = [t \in TaskIds |-> 0]
    /\ cancelSeen' = {}
    /\ UNCHANGED <<lastCreate, taskList, controlCalls>>
    /\ UNCHANGED auxVars

Next ==
    \/ create_workflow(TaskLists)
    \/ \E r \in RunIds : execute_workflow(r)
    \/ \E r \in RunIds : ResumedExecuteStarts(r)
    \/ \E r \in RunIds : _execute_tasks(r)
    \/ \E r \in RunIds : AwaitFuture(r)
    \/ \E r \in RunIds, t \in TaskIds : TaskStarts(r, t)
    \/ \E r \in RunIds, t \in TaskIds : TaskReturns(r, t)
    \/ \E r \in RunIds, t \in TaskIds : TaskRecordsResult(r, t)
    \/ \E r \in RunIds, t \in TaskIds : TaskRaises(r, t)
    \/ \E r \in RunIds, t \in TaskIds : _schedule_retry(r, t)
    \/ pause_workflow
    \/ \E r \in RunIds : resume_workflow(r)
    \/ cancel_workflow
    \/ CancelWrites
    \/ Crash
    \/ CrashInSave

Spec == Init /\ [][Next]_vars

\* One caller that creates the workflow and awaits execute_workflow, one call
\* after the other, with no pause, resume or cancel and no restart.
NextSequential ==
    \/ create_workflow(TaskLists)
    \/ \E r \in RunIds : execute_workflow(r)
    \/ \E r \in RunIds : _execute_tasks(r)
    \/ \E r \in RunIds : AwaitFuture(r)
    \/ \E r \in RunIds, t \in TaskIds : TaskStarts(r, t)
    \/ \E r \in RunIds, t \in TaskIds : TaskReturns(r, t)
    \/ \E r \in RunIds, t \in TaskIds : TaskRecordsResult(r, t)
    \/ \E r \in RunIds, t \in TaskIds : TaskRaises(r, t)
    \/ \E r \in RunIds, t \in TaskIds : _schedule_retry(r, t)

SpecSequential == Init /\ [][NextSequential]_vars

\* The same caller under the scheduling the code relies on: the event loop
\* gives every ready coroutine its turn, every executor thread runs, every
\* invocation of a task function returns or raises, and the sleep of
\* _schedule_retry ends.
FairSequential ==
    /\ \A r \in RunIds :
          WF_vars(_execute_tasks(r)) /\ WF_vars(AwaitFuture(r))
    /\ \A r \in RunIds, t \in TaskIds :
          /\ WF_vars(TaskStarts(r, t))
          /\ WF_vars(TaskReturns(r, t))
          /\ WF_vars(TaskRecordsResult(r, t))
          /\ WF_vars(TaskRaises(r, t))
          /\ WF_vars(_schedule_retry(r, t))

SpecSequentialFair == Init /\ [][NextSequential]_vars /\ FairSequential

\* The same caller creating tasks with timeouts of its choice.
NextTimeout ==
    \/ create_workflow(TimedTaskLists)
    \/ \E r \in RunIds : execute_workflow(r)
    \/ \E r \in RunIds : _execute_tasks(r)
    \/ \E r \in RunIds : AwaitFuture(r)
    \/ \E r \in RunIds, t \in TaskIds : TaskStarts(r, t)
    \/ \E r \in RunIds, t \in TaskIds : TaskReturns(r, t)
    \/ \E r \in RunIds, t \in TaskIds : TaskRecordsResult(r, t)
    \/ \E r \in RunIds, t \in TaskIds : TaskRaises(r, t)
    \/ \E r \in RunIds, t \in TaskIds : _schedule_retry(r, t)

SpecTimeout == Init /\ [][NextTimeout]_vars

\* ------------------------------------------------- status and cleanup

\* What the steps outside the orchestrator's own leave alone.
orchestratorVars ==
    <<states, file, runs, workers, calls, cancelSeen, lastCreate, taskList,
      crashed, controlCalls>>

\* get_workflow_status: load_state's result, which is the WorkflowState object
\* of StateManager._states itself.  `seen` is the value of that object at the
\* time of the call.
get_workflow_status ==
    /\ LoopThreadFree
    /\ ~returned.exists
    /\ load_state.exists
    /\ states' = load_state
    /\ returned' = [exists |-> TRUE, object |-> "_states", seen |-> load_state,
                    mutated |-> FALSE]
    /\ UNCHANGED <<file, runs, workers, calls, cancelSeen, lastCreate, taskList,
                   crashed, controlCalls>>
    /\ UNCHANGED <<old, manifest, disk, clock, fetched>>
    /\ UNCHANGED componentVars

\* The value the caller of get_workflow_status reads from what it holds.
ReturnedValue ==
    IF returned.object = "_states" THEN states ELSE returned.seen

\* The caller assigns a status to the object it was given.
CallerMutatesReturned ==
    /\ returned.exists
    /\ ~returned.mutated
    /\ returned.object = "_states"
    /\ states.exists
    /\ \E v \in WorkflowStatus \ {states.status} :
          states' = [states EXCEPT !.status = v]
    /\ returned' = [returned EXCEPT !.mutated = TRUE]
    /\ UNCHANGED <<file, runs, workers, calls, cancelSeen, lastCreate, taskList,
                   crashed, controlCalls>>
    /\ UNCHANGED <<old, manifest, disk, clock, fetched>>
    /\ UNCHANGED componentVars

\* One caller that creates, executes and asks for the status.
NextStatus ==
    \/ NextSequential
    \/ get_workflow_status
    \/ CallerMutatesReturned

SpecStatus == Init /\ [][NextStatus]_vars

\* Time passes until the workflow's created_at lies before
\* datetime.now() - timedelta(days=older_than_days).
Ages ==
    /\ file.exists
    /\ ~old
    /\ old' = TRUE
    /\ UNCHANGED orchestratorVars
    /\ UNCHANGED <<returned, manifest, disk, clock, fetched>>
    /\ UNCHANGED componentVars

\* cleanup_workflows(older_than_days), called while no execution is in
\* flight: for the id list_workflows gives, load_state and, when created_at is
\* before the cutoff, delete_state.
cleanup_workflows ==
    /\ LoopThreadFree
    /\ NoRunActive
    /\ IF list_workflows # {} /\ load_state.exists /\ old
       THEN /\ states' = NoState
            /\ file' = NoFile
            /\ old' = FALSE
       ELSE /\ states' = load_state
            /\ UNCHANGED <<file, old>>
    /\ UNCHANGED <<runs, workers, calls, cancelSeen, lastCreate, taskList,
                   crashed, controlCalls>>
    /\ UNCHANGED <<returned, manifest, disk, clock, fetched>>
    /\ UNCHANGED componentVars

\* One caller that creates, executes, pauses and cleans up, one call after
\* the other.
NextCleanup ==
    \/ NextSequential
    \/ pause_workflow
    \/ Ages
    \/ cleanup_workflows

SpecCleanup == Init /\ [][NextCleanup]_vars

\* ---------------------------------------------- DataCache and DataFetcher

\* fetch_ncbi_sequences of a DataFetcher(protein_id, force_refresh): with a
\* valid cache and no force_refresh the cached output file is read back (the
\* read fails when the file is not there); otherwise the producer runs, the
\* output file is written and save_cache_info records it.
fetch_ncbi_sequences(protein_id, force_refresh) ==
    /\ IF is_cache_valid /\ ~force_refresh
       THEN /\ fetched' =
                  IF disk[OutputFile].exists
                  THEN [exists |-> TRUE, protein_id |-> protein_id,
                        success |-> TRUE, from_cache |-> TRUE,
                        content |-> disk[OutputFile].content]
                  ELSE [exists |-> TRUE, protein_id |-> protein_id,
                        success |-> FALSE, from_cache |-> TRUE,
                        content |-> <<>>]
            /\ UNCHANGED <<disk, manifest>>
       ELSE /\ disk' = [disk EXCEPT ![OutputFile] =
                           [exists |-> TRUE, content |-> Produce(protein_id)]]
            /\ manifest' = save_cache_info(
                              <<FileInfo(OutputFile, Produce(protein_id))>>)
            /\ fetched' = [exists |-> TRUE, protein_id |-> protein_id,
                           success |-> TRUE, from_cache |-> FALSE,
                           content |-> Produce(protein_id)]
    /\ UNCHANGED <<clock, returned, old>>
    /\ UNCHANGED orchestratorVars
    /\ UNCHANGED componentVars

\* Some process writes a file of the cache directory.
WriteCacheFile(path, content) ==
    /\ disk[path] # [exists |-> TRUE, content |-> content]
    /\ disk' = [disk EXCEPT ![path] = [exists |-> TRUE, content |-> content]]
    /\ UNCHANGED <<manifest, clock, fetched, returned, old>>
    /\ UNCHANGED orchestratorVars
    /\ UNCHANGED componentVars

\* Some process deletes a file of the cache directory.
DeleteCacheFile(path) ==
    /\ disk[path].exists
    /\ disk' = [disk EXCEPT ![path] = NoFile]
    /\ UNCHANGED <<manifest, clock, fetched, returned, old>>
    /\ UNCHANGED orchestratorVars
    /\ UNCHANGED componentVars

\* The entries a caller of save_cache_info may hand over for an existing
\* file: path, size and hash as the fetch tasks build them, or without the
\* hash, or with the path alone.
FileInfos(path) ==
    LET full == FileInfo(path, disk[path].content) IN
    {full, [path |-> path, size |-> full.size], [path |-> path]}

\* The lists of entries over the existing files, in path order.
FileInfoLists ==
    LET present == {p \in Paths : disk[p].exists} IN
    UNION {{<<e>> : e \in FileInfos(p)} : p \in present}
    \cup (IF present = Paths
          THEN {<<e1, e2>> : e1 \in FileInfos(PathOrder[1]),
                             e2 \in FileInfos(PathOrder[2])}
          ELSE {})

\* A caller records files of the cache directory with save_cache_info.
CallerSavesCacheInfo ==
    /\ \E files \in FileInfoLists :
          /\ manifest # save_cache_info(files)
          /\ manifest' = save_cache_info(files)
    /\ UNCHANGED <<disk, clock, fetched, returned, old>>
    /\ UNCHANGED orchestratorVars
    /\ UNCHANGED componentVars

\* Time passes: one TTL.
Tick ==
    /\ clock < MaxTicks * CacheTtl
    /\ clock' = clock + CacheTtl
    /\ UNCHANGED <<manifest, disk, fetched, returned, old>>
    /\ UNCHANGED orchestratorVars
    /\ UNCHANGED componentVars

NextCache ==
    \/ \E protein_id \in ProteinIds, force_refresh \in BOOLEAN :
          fetch_ncbi_sequences(protein_id, force_refresh)
    \/ \E path \in Paths, content \in Contents : WriteCacheFile(path, content)
    \/ \E path \in Paths : DeleteCacheFile(path)
    \/ CallerSavesCacheInfo
    \/ Tick

SpecCache == Init /\ [][NextCache]_vars

\* --------------------------------------------------- fetch_pdb_structures

\* In the steps below manifest and disk are the cache of the 'pdb' source.

\* The files pdb_cache/<pdb_id>.pdb of the PDB ids found for a protein id.
PdbPaths(protein_id) ==
    IF protein_id = "P" THEN <<"f1">> ELSE <<"f1", "f2">>

\* The text files.rcsb.org serves for the PDB id of a file.
PdbText(path) == IF path = "f1" THEN <<"P">> ELSE <<"Q">>

\* The cache directory after the download loop has written the files.
Downloaded(paths) ==
    [p \in Paths |->
        IF InList(paths, p) THEN [exists |-> TRUE, content |-> PdbText(p)]
        ELSE disk[p]]

\* fetch_pdb_structures of a DataFetcher(protein_id, force_refresh): with a
\* valid cache and no force_refresh it counts the .pdb files present; else it
\* downloads every file and then records them all with save_cache_info.
fetch_pdb_structures(protein_id, force_refresh) ==
    /\ IF is_cache_valid /\ ~force_refresh
       THEN /\ fetched' = [exists |-> TRUE, protein_id |-> protein_id,
                           success |-> TRUE, from_cache |-> TRUE,
                           records_count |->
                               Cardinality({p \in Paths : disk[p].exists})]
            /\ UNCHANGED <<disk, manifest>>
       ELSE LET paths == PdbPaths(protein_id) IN
            /\ disk' = Downloaded(paths)
            /\ manifest' = save_cache_info(
                   [i \in DOMAIN paths |-> FileInfo(paths[i], PdbText(paths[i]))])
            /\ fetched' = [exists |-> TRUE, protein_id |-> protein_id,
                           success |-> TRUE, from_cache |-> FALSE,
                           records_count |-> Len(paths)]
    /\ UNCHANGED <<clock, returned, old>>
    /\ UNCHANGED orchestratorVars
    /\ UNCHANGED componentVars

\* The process is killed in fetch_pdb_structures after the download loop and
\* before save_cache_info: the files are written, the manifest is not, and
\* there is no FetchResult.
KilledBeforeManifest(protein_id, force_refresh) ==
    /\ ~(is_cache_valid /\ ~force_refresh)
    /\ disk' = Downloaded(PdbPaths(protein_id))
    /\ fetched' = [exists |-> FALSE, killed |-> TRUE, protein_id |-> protein_id]
    /\ UNCHANGED <<manifest, clock, returned, old>>
    /\ UNCHANGED orchestratorVars
    /\ UNCHANGED componentVars

NextPdb ==
    \/ \E protein_id \in ProteinIds, force_refresh \in BOOLEAN :
          fetch_pdb_structures(protein_id, force_refresh)
    \/ \E protein_id \in ProteinIds, force_refresh \in BOOLEAN :
          KilledBeforeManifest(protein_id, force_refresh)
    \/ \E path \in Paths : DeleteCacheFile(path)
    \/ Tick

SpecPdb == Init /\ [][NextPdb]_vars

\* -------------------------------------------------------- TaskScheduler

\* What the steps of TaskScheduler leave alone.
notSchedulerVars ==
    <<orchestratorVars, returned, old, manifest, disk, clock, fetched,
      flowVars, cacheManagerVars>>

\* "with self._lock" entered although the lock is held.
AcquirableAlways(lock) == TRUE

\* "with self._lock" can be entered: threading.Lock is free.
Acquirable(lock) == lock = "free"

\* task_id in self._running_tasks (0 stands for no entry).
InRunning(task_id) == _running_tasks[task_id] # 0

\* submit_task(task), from "with self._lock" to the return of
\* executor.submit.  With the id already in _running_tasks it returns False.
\* Otherwise it writes status RUNNING and started_at and calls
\* executor.submit, which raises RuntimeError after shutdown (the except
\* clause turns it into False) and else queues a new future, which a pool
\* thread may pick up at once.
submit_task(task_id) ==
    /\ submitCall.pc = "idle"
    /\ Acquirable(_lock)
    /\ IF InRunning(task_id)
       THEN /\ submitCall' = [pc |-> "idle", task |-> task_id, result |-> "False"]
            /\ UNCHANGED <<schedulerTasks, _running_tasks, _lock, executor>>
       ELSE /\ schedulerTasks' = [schedulerTasks EXCEPT ![task_id] =
                                    [status |-> "running", started_at |-> "set"]]
            /\ IF executor.shutdown
               THEN /\ submitCall' = [pc |-> "idle", task |-> task_id,
                                      result |-> "False"]
                    /\ UNCHANGED <<_running_tasks, _lock, executor>>
               ELSE /\ Len(executor.futures) < MaxSubmits
                    /\ executor' = [executor EXCEPT !.futures =
                                      Append(@, [task |-> task_id, pc |-> "queued",
                                                 early |-> FALSE])]
                    /\ _lock' = "submit"
                    /\ submitCall' = [pc |-> "submitted", task |-> task_id,
                                      result |-> "None"]
                    /\ UNCHANGED _running_tasks
    /\ UNCHANGED notSchedulerVars

\* submit_task goes on: it records the future, leaves the lock and returns
\* True.
SubmitRecordsFuture ==
    /\ submitCall.pc = "submitted"
    /\ _running_tasks' = [_running_tasks EXCEPT ![submitCall.task] =
                             Len(executor.futures)]
    /\ _lock' = "free"
    /\ submitCall' = [submitCall EXCEPT !.pc = "idle", !.result = "True"]
    /\ UNCHANGED <<schedulerTasks, executor>>
    /\ UNCHANGED notSchedulerVars

\* A pool thread takes future n from the queue and enters _execute_task.
FutureStarts(n) ==
    /\ n \in DOMAIN executor.futures
    /\ executor.futures[n].pc = "queued"
    /\ executor' = [executor EXCEPT !.futures[n].pc = "running"]
    /\ UNCHANGED <<schedulerTasks, _running_tasks, _lock, submitCall>>
    /\ UNCHANGED notSchedulerVars

\* _execute_task: the function returns or raises and the status is written.
\* `early` notes that submit_task had not yet recorded the future.
_execute_task(n, status) ==
    /\ n \in DOMAIN executor.futures
    /\ executor.futures[n].pc = "running"
    /\ schedulerTasks' = [schedulerTasks EXCEPT
                             ![executor.futures[n].task].status = status]
    /\ executor' = [executor EXCEPT
                       !.futures[n].pc = "finally",
                       !.futures[n].early =
                           /\ submitCall.pc = "submitted"
                           /\ Len(executor.futures) = n]
    /\ UNCHANGED <<_running_tasks, _lock, submitCall>>
    /\ UNCHANGED notSchedulerVars

\* The finally clause of _execute_task: under the lock, the id's entry is
\* deleted when there is one.
ExecuteTaskFinally(n) ==
    /\ n \in DOMAIN executor.futures
    /\ executor.futures[n].pc = "finally"
    /\ Acquirable(_lock)
    /\ _running_tasks' = [_running_tasks EXCEPT ![executor.futures[n].task] = 0]
    /\ executor' = [executor EXCEPT !.futures[n].pc = "done"]
    /\ UNCHANGED <<schedulerTasks, _lock, submitCall>>
    /\ UNCHANGED notSchedulerVars

\* cancel_task(task_id) on an id that has an entry: future.cancel(), which
\* succeeds only while the future is still queued, and the entry is deleted.
cancel_task(task_id) ==
    /\ Acquirable(_lock)
    /\ InRunning(task_id)
    /\ LET n == _running_tasks[task_id] IN
       executor' = [executor EXCEPT !.futures[n].pc =
                       IF @ = "queued" THEN "cancelled" ELSE @]
    /\ _running_tasks' = [_running_tasks EXCEPT ![task_id] = 0]
    /\ UNCHANGED <<schedulerTasks, _lock, submitCall>>
    /\ UNCHANGED notSchedulerVars

\* shutdown: the executor takes no further work.
shutdown ==
    /\ ~executor.shutdown
    /\ executor' = [executor EXCEPT !.shutdown = TRUE]
    /\ UNCHANGED <<schedulerTasks, _running_tasks, _lock, submitCall>>
    /\ UNCHANGED notSchedulerVars

NextScheduler ==
    \/ \E task_id \in TaskIds : submit_task(task_id)
    \/ SubmitRecordsFuture
    \/ \E n \in 1..MaxSubmits : FutureStarts(n)
    \/ \E n \in 1..MaxSubmits, status \in {"completed", "failed"} :
          _execute_task(n, status)
    \/ \E n \in 1..MaxSubmits : ExecuteTaskFinally(n)
    \/ \E task_id \in TaskIds : cancel_task(task_id)
    \/ shutdown

SpecScheduler == Init /\ [][NextScheduler]_vars

\* ------------------------------------------- the step workflow (bin)

\* What the steps of the step workflow leave alone.
notFlowVars ==
    <<orchestratorVars, returned, old, manifest, disk, clock, fetched,
      schedulerVars, cacheManagerVars>>

\* The flow's last step: "if resume_from_step <= 7".
NumSteps == 7

\* resume_workflow_from_step: the largest step it takes.
MaxResumeStep == 5

Steps == 1..NumSteps

\* list.remove(step): the list without the first occurrence of step.
RECURSIVE Remove(_, _)
Remove(list, step) ==
    IF list = <<>> THEN <<>>
    ELSE IF Head(list) = step THEN Tail(list)
         ELSE <<Head(list)>> \o Remove(Tail(list), step)

\* WorkflowManager.mark_step_completed(step, result), save_state included.
mark_step_completed(state, step) ==
    [completed_steps |-> IF InList(state.completed_steps, step)
                         THEN state.completed_steps
                         ELSE Append(state.completed_steps, step),
     failed_steps    |-> IF InList(state.failed_steps, step)
                         THEN Remove(state.failed_steps, step)
                         ELSE state.failed_steps,
     task_results    |-> Append(state.task_results,
                                [step |-> step, success |-> TRUE])]

\* WorkflowManager.mark_step_failed(step, error_message), save_state included.
mark_step_failed(state, step) ==
    [completed_steps |-> state.completed_steps,
     failed_steps    |-> IF InList(state.failed_steps, step)
                         THEN state.failed_steps
                         ELSE Append(state.failed_steps, step),
     task_results    |-> Append(state.task_results,
                                [step |-> step, success |-> FALSE])]

\* main with --resume-from-step: above 1 it calls resume_workflow_from_step,
\* which raises ValueError unless 1 <= step <= 5 and else calls the flow; at
\* 1 it calls the flow directly.  The flow builds a WorkflowManager, which
\* loads the saved state.
main(resume_from_step) ==
    /\ flowRun.pc # "running"
    /\ flowRun.n < MaxFlowRuns
    /\ flowRun' =
          IF resume_from_step > 1
             /\ ~(1 <= resume_from_step /\ resume_from_step <= MaxResumeStep)
          THEN [pc |-> "done", n |-> flowRun.n + 1,
                resume_from_step |-> resume_from_step, next |-> resume_from_step,
                ran |-> <<>>, result |-> "ValueError"]
          ELSE [pc |-> "running", n |-> flowRun.n + 1,
                resume_from_step |-> resume_from_step, next |-> resume_from_step,
                ran |-> <<>>, result |-> "None"]
    /\ UNCHANGED wfState
    /\ UNCHANGED notFlowVars

\* peptide_drug_development_workflow: the next block "if resume_from_step <=
\* k" that is not skipped.  The step's task returns a TaskResult; on success
\* the step is marked completed and the flow goes on (after step 7 to its
\* end), on failure it is marked failed and the flow raises.
peptide_drug_development_workflow(success) ==
    /\ flowRun.pc = "running"
    /\ LET step == flowRun.next IN
       IF success
       THEN /\ wfState' = mark_step_completed(wfState, step)
            /\ flowRun' = [flowRun EXCEPT
                             !.ran = Append(@, step),
                             !.next = step + 1,
                             !.pc = IF step = NumSteps THEN "done" ELSE "running",
                             !.result = IF step = NumSteps THEN "success" ELSE @]
       ELSE /\ wfState' = mark_step_failed(wfState, step)
            /\ flowRun' = [flowRun EXCEPT
                             !.ran = Append(@, step),
                             !.pc = "done",
                             !.result = "failed"]
    /\ UNCHANGED notFlowVars

NextFlow ==
    \/ \E resume_from_step \in Steps : main(resume_from_step)
    \/ \E success \in BOOLEAN : peptide_drug_development_workflow(success)

SpecFlow == Init /\ [][NextFlow]_vars

\* --------------------------------------------------------- CacheManager

\* What the steps of CacheManager leave alone.
notCacheManagerVars ==
    <<orchestratorVars, returned, old, manifest, disk, fetched,
      schedulerVars, flowVars>>

\* set: the default ttl, in seconds.
DefaultTtl == 3600

CacheValues == {"v"}

\* key in self.memory_cache.
InMemory(cache, key) == \E i \in DOMAIN cache : cache[i].key = key

\* self.memory_cache[key].
Entry(cache, key) == cache[CHOOSE i \in DOMAIN cache : cache[i].key = key]

\* del self.memory_cache[key].
Without(cache, key) == SelectSeq(cache, LAMBDA e : e.key # key)

\* self.memory_cache[key] = entry: an existing key keeps its place in the
\* dict, a new one comes last.
Put(cache, entry) ==
    IF InMemory(cache, entry.key)
    THEN [i \in DOMAIN cache |->
             IF cache[i].key = entry.key THEN entry ELSE cache[i]]
    ELSE Append(cache, entry)

\* The eviction taking the entry created last.
newest_key(cache) ==
    LET i == CHOOSE i \in DOMAIN cache :
                 /\ \A j \in DOMAIN cache :
                       cache[i].created_at >= cache[j].created_at
                 /\ \A j \in DOMAIN cache :
                       j < i => cache[j].created_at < cache[i].created_at
    IN  cache[i].key

\* min(self.memory_cache.keys(), key=created_at): the first key, in dict
\* order, among those with the least created_at.
oldest_key(cache) ==
    LET i == CHOOSE i \in DOMAIN cache :
                 /\ \A j \in DOMAIN cache :
                       cache[i].created_at <= cache[j].created_at
                 /\ \A j \in DOMAIN cache :
                       j < i => cache[j].created_at > cache[i].created_at
    IN  cache[i].key

\* CacheManager.set(key, value) without Redis: a full memory cache loses its
\* oldest entry, the entry is stored, and the cache file is written.
set(key, value) ==
    /\ LET entry   == [key |-> key, value |-> value, created_at |-> clock,
                       expires_at |-> clock + DefaultTtl]
           full    == Len(memory_cache) >= MaxMemoryEntries
           evicted == IF full THEN oldest_key(memory_cache) ELSE "None"
           kept    == IF full THEN Without(memory_cache, evicted)
                      ELSE memory_cache
       IN
       /\ memory_cache' = Put(kept, entry)
       /\ cache_files' = [cache_files EXCEPT ![key] =
                            [exists |-> TRUE, value |-> value,
                             expires_at |-> entry.expires_at]]
       /\ lastOp' = [op |-> "set", key |-> key, evicted |-> evicted]
    /\ UNCHANGED clock
    /\ UNCHANGED notCacheManagerVars

\* CacheManager.get(key) without Redis: the memory entry when it has not
\* expired (an expired one is deleted), else the cache file when it has not
\* expired (an expired one is unlinked), else None.
get(key) ==
    /\ LET hit    == /\ InMemory(memory_cache, key)
                     /\ Entry(memory_cache, key).expires_at > clock
           memory == IF InMemory(memory_cache, key) /\ ~hit
                     THEN Without(memory_cache, key) ELSE memory_cache
           stale  == cache_files[key].exists
                        /\ cache_files[key].expires_at < clock
       IN
       /\ memory_cache' = memory
       /\ cache_files' = IF ~hit /\ stale
                         THEN [cache_files EXCEPT ![key] = NoFile]
                         ELSE cache_files
       /\ lastOp' = [op |-> "get", key |-> key,
                     result |-> IF hit THEN Entry(memory_cache, key).value
                                ELSE IF cache_files[key].exists /\ ~stale
                                     THEN cache_files[key].value
                                     ELSE "None"]
    /\ UNCHANGED clock
    /\ UNCHANGED notCacheManagerVars

NextCacheManager ==
    \/ \E key \in CacheKeys, value \in CacheValues : set(key, value)
    \/ \E key \in CacheKeys : get(key)
    \/ Tick

SpecCacheManager == Init /\ [][NextCacheManager]_vars

\* ================================================================ claims

TerminalTaskStatuses == {"completed", "failed", "cancelled"}

\* Task t is started in this step: an executor thread sets it RUNNING.
TaskStartedNow(t) ==
    \E r \in RunIds : workers[r][t] = "start" /\ workers'[r][t] = "running"

\* C1: whenever a task is started, every one of its dependencies has status
\* COMPLETED at that moment.
C1_DependenciesCompletedAtStart ==
    [][\A t \in TaskIds :
          TaskStartedNow(t) =>
              \A d \in states.tasks[t].dependencies :
                  states.tasks[d].status = "completed"]_vars

\* The tasks that can be put in an order in which each comes after its
\* dependencies, found by repeatedly taking those whose dependencies are
\* all taken (Kahn).
RECURSIVE Ordered(_, _)
Ordered(tasks, done) ==
    LET next == {t \in DOMAIN tasks \ done : tasks[t].dependencies \subseteq done}
    IN  IF next = {} THEN done ELSE Ordered(tasks, done \cup next)

HasTopologicalOrder(tasks) == Ordered(tasks, {}) = DOMAIN tasks

\* C2: every task set create_workflow accepts has a topological order (a set
\* with a dependency cycle, a task depending on itself included, is rejected).
C2_AcceptedSetsAreAcyclic ==
    states.exists => HasTopologicalOrder(states.tasks)

\* Every dependency id is the task_id of a task of the set.
DependenciesResolve(tasks) ==
    \A t \in DOMAIN tasks : tasks[t].dependencies \subseteq DOMAIN tasks

\* C3: a create_workflow call ends in an error whenever some task lists a
\* dependency id that is no task of the set (so a set it accepts has none),
\* and a call that ends in that error leaves list_workflows, the file and
\* the in-memory state as they were.
C3_MissingDependencyRejected ==
    [][lastCreate' # lastCreate =>
          IF lastCreate' = "WorkflowError"
          THEN /\ list_workflows' = list_workflows
               /\ file' = file
               /\ states' = states
          ELSE DependenciesResolve(taskList')]_vars

\* C3 witness: a create_workflow call was rejected while a workflow is
\* persisted, so list_workflows was non-empty before and after it.
C3_Witness == lastCreate = "WorkflowError" /\ list_workflows = {"w"}

\* A task's status is terminal and no retry is left to replace it: COMPLETED,
\* CANCELLED, or FAILED with the retries exhausted.
TerminallyDecided(task) ==
    /\ task.status \in TerminalTaskStatuses
    /\ task.status = "failed" => task.retry_count >= task.max_retries

\* C4: once a task's status is COMPLETED, FAILED or CANCELLED, no later state
\* shows another status for it.  FAILED is taken with the retries exhausted,
\* so that the FAILED a retry replaces by RETRYING is not what refutes it.
C4_TerminalStatusStable ==
    [][states.exists /\ states'.exists =>
          \A t \in DOMAIN states.tasks :
              TerminallyDecided(states.tasks[t]) =>
                  states'.tasks[t].status = states.tasks[t].status]_vars

\* C5: retry_count <= max_retries for every task, in every reachable state.
C5_RetryCountBounded ==
    states.exists =>
        \A t \in DOMAIN states.tasks :
            states.tasks[t].retry_count <= states.tasks[t].max_retries

\* C6: the workflow status is COMPLETED only if every task is COMPLETED (the
\* half of the equivalence the claim singles out: execute never marks a
\* workflow COMPLETED while some task is PENDING, FAILED or CANCELLED).  It is
\* stated for the task sets that have a topological order, so that what
\* refutes it does not rest on a dependency cycle.
C6_CompletedOnlyIfAllTasksCompleted ==
    /\ states.exists
    /\ HasTopologicalOrder(states.tasks)
    /\ states.status = "completed"
    => \A t \in DOMAIN states.tasks : states.tasks[t].status = "completed"

\* C7: an execute_workflow in which some task failed with its retries
\* exhausted ends with the workflow FAILED.
C7_ExhaustedTaskFailsWorkflow ==
    [][\A r \in RunIds :
          /\ runs[r].pc = "loop"
          /\ runs[r].failed # {}
          /\ runs'[r].result \in {"completed", "failed"}
          => states'.status = "failed"]_vars

\* C8: the function of a task already recorded COMPLETED is not invoked
\* again: no such task is set RUNNING.
C8_CompletedTaskNotRerun ==
    [][\A t \in TaskIds :
          TaskStartedNow(t) => states.tasks[t].status # "completed"]_vars

\* The task functions of a list are deterministic: each always returns or
\* always raises.
Deterministic(tasks) ==
    \A t \in DOMAIN tasks : tasks[t].function \in {"returns", "raises"}

\* What execute_workflow makes of a task list when nothing interferes: a task
\* ends COMPLETED when its function returns within 1 + max_retries attempts,
\* and the loop of _execute_tasks goes batch by batch.
RECURSIVE UninterruptedResult(_, _, _)
UninterruptedResult(tasks, completed, failed) ==
    LET ready == _get_ready_tasks(tasks, completed, failed)
        good  == {t \in ready :
                     \/ tasks[t].function = "returns"
                     \/ /\ tasks[t].function \in FlakyFns
                        /\ FailsFirst(tasks[t].function) <= tasks[t].max_retries}
    IN  IF Cardinality(completed) + Cardinality(failed) < Cardinality(DOMAIN tasks)
        THEN IF ready = {}
             THEN IF failed # {} THEN "failed" ELSE "completed"
             ELSE UninterruptedResult(tasks, completed \cup good,
                                      failed \cup (ready \ good))
        ELSE "completed"

\* C9: with deterministic task functions, when execute_workflow was called,
\* the process was killed and restarted, and execute_workflow is called again,
\* that call ends as an uninterrupted run does.
C9_ResumeEndsAsUninterrupted ==
    [][\A r \in RunIds :
          /\ crashed
          /\ ~file.truncated
          /\ \E q \in RunIds : q # r /\ runs[q].pc = "done"
          /\ Deterministic(taskList)
          /\ runs[r].pc # "done"
          /\ runs'[r].pc = "done"
          => runs'[r].result = UninterruptedResult(taskList, {}, {})]_vars

\* What C10 compares of a WorkflowState: the workflow status and every task's
\* status, dependencies, retry_count, result and error.
StateView(st) ==
    [status |-> st.status,
     tasks  |-> [t \in DOMAIN st.tasks |->
                   [status       |-> st.tasks[t].status,
                    dependencies |-> st.tasks[t].dependencies,
                    retry_count  |-> st.tasks[t].retry_count,
                    result       |-> st.tasks[t].result,
                    error        |-> st.tasks[t].error]]]

\* C10: after every save_state, a load_state served from the file alone
\* returns a state equal to the one saved.
C10_SaveLoadRoundTrip ==
    [][file' # file =>
          /\ ParseState(file').exists
          /\ StateView(ParseState(file')) = StateView(states')]_vars

\* C11: once cancel_workflow has set the workflow CANCELLED, the next state
\* does not show it RUNNING (an execute_workflow on it starts nothing).
C11_CancelledNeverRunning ==
    [][/\ states.exists
       /\ states.status = "cancelled"
       /\ states'.exists
       => states'.status # "running"]_vars

\* A cancel_workflow call returns in this step: the call that read no task as
\* RUNNING, or the last writes of one that did.
CancelReturnsNow ==
    /\ states'.exists
    /\ \/ /\ controlCalls' # controlCalls
          /\ cancelSeen' = {}
          /\ states'.status = "cancelled"
       \/ /\ cancelSeen # {}
          /\ cancelSeen' = {}

WorkflowTerminal(st) == st.status \in {"completed", "failed", "cancelled"}

\* C12: when cancel_workflow returns on a workflow that was not terminal, the
\* workflow is CANCELLED and no task is left PENDING, RUNNING or RETRYING.
C12_CancelLeavesNoActiveTask ==
    [][/\ CancelReturnsNow
       /\ load_state.exists
       /\ ~WorkflowTerminal(load_state)
       => /\ states'.status = "cancelled"
          /\ \A t \in DOMAIN states'.tasks :
                states'.tasks[t].status \in TerminalTaskStatuses]_vars

\* C13: the workflow status becomes PAUSED only from RUNNING.
C13_PausedOnlyFromRunning ==
    [][/\ load_state.exists
       /\ states'.exists
       /\ states'.status = "paused"
       /\ load_state.status # "paused"
       => load_state.status = "running"]_vars

\* The loop of _execute_tasks hands task t to the executor in this step.
TaskSubmittedNow(t) ==
    \E r \in RunIds :
        /\ runs[r].pc = "loop"
        /\ workers[r][t] # "start"
        /\ workers'[r][t] = "start"

\* resume_workflow was called and its execute_workflow has not yet begun.
ResumeCalled == \E r \in RunIds : runs[r].pc = "scheduled"

\* C14: while a workflow is PAUSED and resume_workflow has not been called,
\* no task is handed to the executor (the tasks handed over before the pause
\* may still start and finish) and the execution sets no terminal workflow
\* status.
\* It is stated for the workflows that have a task and a topological order.
C14_PausedStartsNothing ==
    [][/\ states.exists
       /\ DOMAIN states.tasks # {}
       /\ HasTopologicalOrder(states.tasks)
       /\ states.status = "paused"
       /\ ~ResumeCalled
       /\ states'.exists
       => /\ \A t \in TaskIds : ~TaskSubmittedNow(t)
          /\ states'.status \notin {"completed", "failed"}]_vars

\* TaskScheduler.__init__: max_workers when the configuration names none.
DefaultMaxWorkers == 4

\* The max_workers values a configuration may carry, up to the default.
ConfiguredMaxWorkers == 1..DefaultMaxWorkers

\* The executor threads that are inside a task function.
RunningFunctions ==
    {rt \in RunIds \X TaskIds : workers[rt[1]][rt[2]] = "running"}

\* C15: whatever max_workers is configured, at most that many task functions
\* run at the same time.  _execute_tasks hands its tasks to the event loop's
\* default executor, so the configured value does not enter the model's
\* behaviour and the bound is asked for each value.
C15_AtMostMaxWorkersRunning ==
    \A max_workers \in ConfiguredMaxWorkers :
        Cardinality(RunningFunctions) <= max_workers

\* The executions in which a thread is inside _execute_single_task for task t.
ExecutionsInFlight(t) ==
    {r \in RunIds : workers[r][t] \in {"running", "finishing", "retry"}}

\* C16: no task id has two executions in flight at the same time.
C16_OneExecutionPerTask ==
    \A t \in TaskIds : Cardinality(ExecutionsInFlight(t)) <= 1

\* Execution r ends in this step, its loop over or blocked.
ExecuteEndsNow(r) ==
    /\ runs[r].pc = "loop"
    /\ runs'[r].result \in {"completed", "failed"}

\* C17: an execute_workflow that ends with a task failed for good has called
\* handle_workflow_error exactly once, and one in which no task failed has
\* not called it.
C17_NotifiedOncePerFailure ==
    [][\A r \in RunIds :
          ExecuteEndsNow(r) =>
              runs'[r].notified = IF runs[r].failed # {} THEN 1 ELSE 0]_vars

\* No execute_workflow other than r has been called.
FirstExecute(r) == \A q \in RunIds : q # r => runs[q].pc = "idle"

\* C18: in the first execution of a task whose function raises on its first k
\* invocations and returns afterwards, the thread ends by returning exactly
\* when k <= max_retries, then with k + 1 invocations, status COMPLETED and
\* retry_count = k; otherwise it ends by raising, with max_retries + 1
\* invocations, status FAILED and retry_count = max_retries.
C18_RetryOutcome ==
    [][\A r \in RunIds, t \in TaskIds :
          /\ FirstExecute(r)
          /\ workers[r][t] \in {"running", "finishing"}
          /\ workers'[r][t] \in {"returned", "raised"}
          /\ states.tasks[t].function \in FlakyFns
          => LET k    == FailsFirst(states.tasks[t].function)
                 task == states'.tasks[t]
             IN  IF k <= task.max_retries
                 THEN /\ workers'[r][t] = "returned"
                      /\ calls'[t] = k + 1
                      /\ task.status = "completed"
                      /\ task.retry_count = k
                 ELSE /\ workers'[r][t] = "raised"
                      /\ calls'[t] = task.max_retries + 1
                      /\ task.status = "failed"
                      /\ task.retry_count = task.max_retries]_vars

\* C18 witness: in the first execution a task whose function raised once has
\* been retried and has ended COMPLETED.
C18_Witness ==
    \E t \in TaskIds :
        /\ FirstExecute(1)
        /\ workers[1][t] = "returned"
        /\ states.tasks[t].function \in FlakyFns
        /\ states.tasks[t].status = "completed"
        /\ states.tasks[t].retry_count >= 1

\* The tasks S together with those that depend on one of them, directly or
\* through other tasks.
RECURSIVE WithDependents(_, _)
WithDependents(tasks, S) ==
    LET more == {t \in DOMAIN tasks \ S : tasks[t].dependencies \cap S # {}}
    IN  IF more = {} THEN S ELSE WithDependents(tasks, S \cup more)

\* C19: when an execute_workflow ends with failed tasks, every task that
\* depends on one of them has status FAILED.
C19_DependentsOfFailedAreFailed ==
    [][\A r \in RunIds :
          ExecuteEndsNow(r) =>
              \A t \in WithDependents(states.tasks, runs[r].failed) \ runs[r].failed :
                  states'.tasks[t].status = "failed"]_vars

\* Exactly one execute_workflow is in flight.
OneExecuteInFlight ==
    Cardinality({r \in RunIds : runs[r].pc \notin {"idle", "done"}}) = 1

\* C20: while one execute_workflow is in flight, the progress of the workflow
\* does not decrease.
C20_ProgressNeverDecreases ==
    [][/\ OneExecuteInFlight
       /\ states.exists
       /\ states'.exists
       => states'.progress >= states.progress]_vars

\* C24: a reader of the state file finds a complete record, the previous one
\* or the new one, never a partial one.
C24_FileAlwaysComplete ==
    file.exists => ~file.truncated

\* C26: load_state's result for a record that exists but cannot be parsed
\* differs from its result for an id that has no record.
C26_CorruptDistinctFromAbsent ==
    file.exists /\ file.truncated => ParseState(file) # ParseState(NoFile)

\* A task record shows COMPLETED with completed_at set and error unset, or
\* does not show COMPLETED.
CompletedRecordConsistent(task, completed) ==
    task.status = completed =>
        task.completed_at = "set" /\ task.error = "None"

\* C28: in the in-memory state and in the persisted record, every task that
\* is COMPLETED has completed_at set and error unset.
C28_CompletedHasCompletedAt ==
    /\ states.exists =>
          \A t \in DOMAIN states.tasks :
              CompletedRecordConsistent(states.tasks[t], "completed")
    /\ file.exists /\ ~file.truncated =>
          \A t \in DOMAIN file.tasks :
              CompletedRecordConsistent(file.tasks[t],
                                        EnumStr("TaskStatus", "completed"))

\* C29: whenever the workflow is FAILED, some task is FAILED with its retries
\* exhausted and no task that is not terminal has all its dependencies
\* COMPLETED.
C29_FailedMeansBlocked ==
    states.exists /\ states.status = "failed" =>
        /\ \E t \in DOMAIN states.tasks :
              /\ states.tasks[t].status = "failed"
              /\ states.tasks[t].retry_count = states.tasks[t].max_retries
        /\ \A t \in DOMAIN states.tasks :
              states.tasks[t].status \notin TerminalTaskStatuses =>
                  \E d \in states.tasks[t].dependencies :
                      states.tasks[d].status # "completed"

\* C30: when a task is started, the persisted record shows every one of its
\* dependencies COMPLETED.
C30_DependenciesPersistedAtStart ==
    [][\A t \in TaskIds :
          TaskStartedNow(t) =>
              /\ file.exists
              /\ ~file.truncated
              /\ \A d \in states.tasks[t].dependencies :
                    file.tasks[d].status = EnumStr("TaskStatus", "completed")]_vars

\* The manifest entry records a size and a hash and the file has both.
RecordedSizeAndHashMatch(file_info) ==
    /\ disk[file_info.path].exists
    /\ "size" \in DOMAIN file_info
    /\ Len(disk[file_info.path].content) = file_info.size
    /\ "hash" \in DOMAIN file_info
    /\ _calculate_hash(file_info.path) = file_info.hash

\* C21: is_cache_valid is true exactly when the manifest exists, its age is
\* within the TTL and every listed file exists with the recorded size and the
\* recorded sha256.
C21_ValidIffFilesIntact ==
    is_cache_valid <=>
        /\ manifest.exists
        /\ clock - manifest.timestamp <= CacheTtl
        /\ \A i \in DOMAIN manifest.files :
              RecordedSizeAndHashMatch(manifest.files[i])

\* C22: get_valid_cache_files returns no path unless the cache is valid.
C22_NoFilesUnlessValid ==
    ~is_cache_valid => get_valid_cache_files = <<>>

\* C23: a fetch that follows a fetch for another protein id returns the
\* artifact of its own protein id.
C23_FetchReturnsOwnArtifact ==
    [][/\ fetched.exists
       /\ fetched'.exists
       /\ fetched'.protein_id # fetched.protein_id
       /\ fetched'.success
       => fetched'.content = Produce(fetched'.protein_id)]_vars

\* C25: what get_workflow_status returned keeps the value it had at the call
\* whatever the orchestrator does afterwards, and an assignment to it leaves
\* the orchestrator's state as it was.
C25_StatusIsSnapshot ==
    [][/\ returned'.exists /\ ~returned'.mutated
          => ReturnedValue' = returned'.seen
       /\ returned.exists /\ ~returned.mutated /\ returned'.mutated
          => states' = states]_vars

\* C27: cleanup_workflows deletes a workflow only when its created_at is
\* before the cutoff and its status is COMPLETED, FAILED or CANCELLED.
C27_CleanupDeletesOnlyTerminal ==
    [][file.exists /\ ~file'.exists =>
          old /\ load_state.exists /\ WorkflowTerminal(load_state)]_vars

\* The exception classes of a precondition or data-format failure.
ValidationErrors == {"ValueError"}

\* C31: a task whose function fails with a validation error is not retried:
\* its retry_count stays 0 and it never waits for a retry.
C31_ValidationNotRetried ==
    states.exists =>
        \A t \in DOMAIN states.tasks :
            Raised(states.tasks[t].function) \in ValidationErrors =>
                /\ states.tasks[t].retry_count = 0
                /\ states.tasks[t].status # "retrying"

\* C32: a task whose timeout is 0 never ends COMPLETED.
C32_ZeroTimeoutNeverCompletes ==
    states.exists =>
        \A t \in DOMAIN states.tasks :
            states.tasks[t].timeout = 0 => states.tasks[t].status # "completed"

\* Task t is in the sleep of _schedule_retry.
InBackoff(t) ==
    /\ states.exists
    /\ t \in DOMAIN states.tasks
    /\ states.tasks[t].status = "retrying"
    /\ \E r \in RunIds : workers[r][t] = "start"

\* C33: when cancel_workflow returns, a task that was waiting in a retry
\* back-off is CANCELLED.
C33_CancelAbortsBackoff ==
    [][\A t \in TaskIds :
          CancelReturnsNow /\ InBackoff(t) =>
              states'.tasks[t].status = "cancelled"]_vars

\* C35: every execute_workflow that has entered _execute_tasks ends.
C35_ExecuteTerminates ==
    \A r \in RunIds :
        (runs[r].pc \in {"loop", "await"}) ~> (runs[r].pc = "done")

\* An execution has ended although a task was retried and another can never
\* have its dependencies satisfied.
C35_Witness ==
    \E r \in RunIds, t \in TaskIds, u \in TaskIds :
        /\ runs[r].pc = "done"
        /\ runs[r].result \in {"completed", "failed"}
        /\ states.exists
        /\ {t, u} \subseteq DOMAIN states.tasks
        /\ states.tasks[t].retry_count > 0
        /\ states.tasks[u].status = "pending"
        /\ u \in states.tasks[u].dependencies

\* Every future the executor was given for the id has ended, and no
\* submit_task of the id is in progress.
NothingInFlight(task_id) ==
    /\ submitCall.pc = "idle" \/ submitCall.task # task_id
    /\ \A n \in DOMAIN executor.futures :
          executor.futures[n].task = task_id =>
              executor.futures[n].pc \in {"done", "cancelled"}

\* C37: once everything submitted for a task id has ended, the id is not in
\* _running_tasks, whichever of submit_task and the worker came first.
C37_NoEntryLeaked ==
    \A task_id \in TaskIds : NothingInFlight(task_id) => ~InRunning(task_id)

\* A worker whose function ended before submit_task had recorded its future
\* has finished, and its id has no entry.
C37_Witness ==
    \E n \in DOMAIN executor.futures :
        /\ executor.futures[n].pc = "done"
        /\ executor.futures[n].early
        /\ NothingInFlight(executor.futures[n].task)
        /\ ~InRunning(executor.futures[n].task)

\* C38: a submit_task call that returns False leaves the task's status and
\* started_at as they were and gives the executor nothing to run.
C38_RefusedSubmitChangesNothing ==
    [][/\ submitCall' # submitCall
       /\ submitCall'.pc = "idle"
       /\ submitCall'.result = "False"
       => /\ schedulerTasks'[submitCall'.task] = schedulerTasks[submitCall'.task]
          /\ executor'.futures = executor.futures]_vars

\* C36: a run asked to resume from a step of the flow is accepted and
\* executes that step and the later ones in order, up to the first that fails
\* or to the last step.
C36_ResumeFromAnyStep ==
    flowRun.pc = "done" /\ flowRun.resume_from_step \in Steps =>
        /\ flowRun.result # "ValueError"
        /\ flowRun.ran # <<>>
        /\ \A i \in DOMAIN flowRun.ran :
              flowRun.ran[i] = flowRun.resume_from_step + i - 1
        /\ flowRun.result = "success" =>
              flowRun.ran[Len(flowRun.ran)] = NumSteps

\* No element occurs twice in the list.
NoDuplicates(list) ==
    \A i, j \in DOMAIN list : list[i] = list[j] => i = j

\* C39: no step is in both completed_steps and failed_steps, and neither
\* list holds a step twice.
C39_StepListsDisjoint ==
    /\ \A step \in Steps :
          ~(InList(wfState.completed_steps, step)
              /\ InList(wfState.failed_steps, step))
    /\ NoDuplicates(wfState.completed_steps)
    /\ NoDuplicates(wfState.failed_steps)

\* No entry of the cache was created before the entry of `key`.
IsOldest(cache, key) ==
    \A j \in DOMAIN cache : Entry(cache, key).created_at <= cache[j].created_at

\* C40: the memory cache never holds more than max_memory_entries entries,
\* and a set on a full cache evicts an entry with the oldest created_at.
C40_BoundedAndEvictsOldest ==
    [][/\ Len(memory_cache') <= MaxMemoryEntries
       /\ (/\ lastOp' # lastOp
           /\ lastOp'.op = "set"
           /\ Len(memory_cache) >= MaxMemoryEntries)
          => /\ InMemory(memory_cache, lastOp'.evicted)
             /\ IsOldest(memory_cache, lastOp'.evicted)
             /\ lastOp'.evicted # lastOp'.key
                   => ~InMemory(memory_cache', lastOp'.evicted)
             /\ \A i \in DOMAIN memory_cache :
                   memory_cache[i].key # lastOp'.evicted
                       => InMemory(memory_cache', memory_cache[i].key)]_vars

\* A set on a full cache holding entries of different age has evicted one.
C40_Witness ==
    /\ lastOp.op = "set"
    /\ lastOp.evicted # "None"
    /\ lastOp.evicted # lastOp.key
    /\ Len(memory_cache) = MaxMemoryEntries
    /\ \E i, j \in DOMAIN memory_cache :
          memory_cache[i].created_at < memory_cache[j].created_at

\* C34: a fetch writes the manifest when all the files it lists exist, and
\* after a kill between the writing of the files and the manifest write the
\* cache is not valid, whatever manifest was there before.
C34_KilledFetchLeavesCacheInvalid ==
    [][/\ (fetched' # fetched /\ fetched'.exists /\ ~fetched'.from_cache)
          => \A i \in DOMAIN manifest'.files :
                disk'[manifest'.files[i].path].exists
       /\ (fetched' # fetched /\ ~fetched'.exists)
          => ~is_cache_valid']_vars

====
